---- MODULE Spec2Model ----
(***************************************************************************)
(* SpaceDownloaderEnglish.py: a linear script that checks its OAuth        *)
(* credentials, parses the command line, resolves the evalscript, fetches  *)
(* a token, computes the image size from the bounding box, posts one       *)
(* process request and saves the answer.                                   *)
(*                                                                         *)
(* Text (str) is a sequence of one-character strings, so that len() is     *)
(* Len.  A coordinate is an integer count of 1/10000 degree.  A float that *)
(* is not a coordinate (cosine, aspect ratio, distance) is a fixed-point   *)
(* integer with SCALE units per 1.                                         *)
(***************************************************************************)
EXTENDS Integers, Sequences, FiniteSets, TLC

\* ---------------------------------------------------------------- bounds
\* most components appended to a well-formed --box argument
MaxExtra == 1
\* longest response body, in bytes
MaxBodyLen == 1

\* ------------------------------------------------------- program constants
MAX_WIDTH == 2500
DEFAULT_HEIGHT == 512
DEFAULT_QUALITY == 90
DEFAULT_FORMAT == "image/jpeg"
DEFAULT_FILENAME == <<"i", "m", "a", "g", "e", "1", ".", "j", "p", "g">>
KM_PER_DEGREE == 111
\* fixed-point resolution of the modelled floats
SCALE == 10000

\* a component of the --box text between two commas: a decimal literal
\* (possibly padded with blanks) or something float() rejects
Num(v, padded) == [kind |-> "num", val |-> v, pad |-> padded]
NotANumber == [kind |-> "text", val |-> 0, pad |-> FALSE]
EmptyText == [kind |-> "empty", val |-> 0, pad |-> FALSE]

\* BOX = "15.0617, 50.2856, 15.2252, 50.3378"
DEFAULT_BOX ==
    <<Num(150617, FALSE), Num(502856, TRUE), Num(152252, TRUE), Num(503378, TRUE)>>

\* the built-in EVALSCRIPT, one element per statement that matters
EXPOSURE_STMT == "let exposure = 2;"
DEFAULT_EVALSCRIPT ==
    <<"//VERSION=3", "function setup()", "function evaluatePixel(sample)",
      EXPOSURE_STMT, "return [B04, B03, B02] * exposure">>

TOKEN_URL == "identity.dataspace.copernicus.eu/token"
PROCESS_URL == "sh.dataspace.copernicus.eu/api/v1/process"

\* ------------------------------------------------------------ input space
Credentials == {<<>>, <<"i", "d">>}
Secrets == {<<>>, <<"s", "e", "c">>}

\* --vyska as typed: absent (the int default), a decimal literal, or junk
VyskaArgs ==
    {[given |-> FALSE, kind |-> "num", val |-> 0],
     [given |-> TRUE, kind |-> "num", val |-> 1],
     [given |-> TRUE, kind |-> "num", val |-> 1000],
     [given |-> TRUE, kind |-> "num", val |-> 3000],
     [given |-> TRUE, kind |-> "text", val |-> 0]}

\* --jas as typed: absent (the int default 2) or the literal "3"
JasArgs == {"absent", "3"}

Box4(lng0, lat0, lng1, lat1) ==
    <<Num(lng0, FALSE), Num(lat0, FALSE), Num(lng1, FALSE), Num(lat1, FALSE)>>

RECURSIVE Extras(_)
Extras(k) == IF k = 0 THEN <<>> ELSE Append(Extras(k - 1), Num(0, FALSE))

WellFormedBoxes ==
    {DEFAULT_BOX,
     Box4(150617, 502856, 151139, 504491),    \* taller than wide
     Box4(150617, 502856, 152252, 502908),    \* much wider than tall
     Box4(150617, 503378, 152252, 502856),    \* lat1 < lat0
     Box4(150617, 502856, 152252, 502856),    \* lat1 = lat0
     Box4(150617, 502856, 150617, 503378)}    \* lng1 = lng0

BoxArgs ==
    WellFormedBoxes
    \cup {SubSeq(DEFAULT_BOX, 1, n) : n \in 1..3}
    \cup {DEFAULT_BOX \o Extras(k) : k \in 1..MaxExtra}
    \cup {<<EmptyText>>,
          <<Num(150617, FALSE), NotANumber, Num(152252, FALSE), Num(503378, FALSE)>>}

OutA == DEFAULT_FILENAME
OutB == <<"o", ".", "j", "p", "g">>
PathOne == <<"e">>                       \* readable, one character long
PathOneMissing == <<"f">>                \* one character long, no such file
PathCustom == <<"c", ".", "j", "s">>     \* readable
PathEmpty == <<"0", ".", "j", "s">>      \* readable, zero bytes
PathMissing == <<"m", ".", "j", "s">>    \* no such file
PathLocked == <<"l", ".", "j", "s">>     \* exists, open() is refused

EvalscriptArgs ==
    {<<>>, PathOne, PathOneMissing, PathCustom, PathEmpty, PathMissing, PathLocked}
Paths == (EvalscriptArgs \ {<<>>}) \cup {OutA, OutB}

CustomScript == <<"//VERSION=3", "custom", EXPOSURE_STMT>>
OldImage == <<7, 7>>

File(d) == [exists |-> TRUE, readable |-> TRUE, data |-> d]
NoFile == [exists |-> FALSE, readable |-> FALSE, data |-> <<>>]
LockedFile == [exists |-> TRUE, readable |-> FALSE, data |-> CustomScript]

\* the disk before the run; the output files are there or not
Disk(old) ==
    [p \in Paths |->
        CASE p = PathOne -> File(CustomScript)
          [] p = PathCustom -> File(CustomScript)
          [] p = PathEmpty -> File(<<>>)
          [] p = PathLocked -> LockedFile
          [] p \in {OutA, OutB} -> IF old THEN File(OldImage) ELSE NoFile
          [] OTHER -> NoFile]

Argv ==
    [soubor : {OutA, OutB}, vyska : VyskaArgs, box : BoxArgs,
     evalscript : EvalscriptArgs, jas : JasArgs, ukaztoken : BOOLEAN]

Bytes == {0, 255}
Bodies == UNION {[1..n -> Bytes] : n \in 0..MaxBodyLen}
StatusCodes == {200, 204, 404, 500}

VARIABLES
    pc,             \* the statement the script is about to run
    client_id, client_secret,
    argv,           \* the command line
    fs, fs0,        \* the disk now, and as it was when the run began
    stdout,         \* what has been printed
    exitKind,       \* "running", "exit", or the exception that ended the run
    args,           \* parser.parse_args()
    HEIGHT, FILENAME, BOX, EVALSCRIPT,
    token, width, height, request_params, response,
    http,           \* the network calls made, oldest first
    writes          \* how many times the output file was written

vars == <<pc, client_id, client_secret, argv, fs, fs0, stdout, exitKind, args,
          HEIGHT, FILENAME, BOX, EVALSCRIPT, token, width, height,
          request_params, response, http, writes>>

NoArgs == [soubor |-> <<>>, vyska |-> 0, box |-> <<>>, evalscript |-> <<>>,
           jas |-> "none", ukaztoken |-> FALSE]
NoToken == [access_token |-> "", expires_in |-> "", token_type |-> ""]
NoRequest == [bbox |-> <<>>, width |-> 0, height |-> 0, format |-> "",
              quality |-> 0, evalscript |-> <<>>]
NoResponse == [status_code |-> 0, content |-> <<>>]

Init ==
    /\ pc = "check_credentials"
    /\ client_id \in Credentials
    /\ client_secret \in Secrets
    /\ argv \in Argv
    /\ \E old \in BOOLEAN : fs = Disk(old)
    /\ fs0 = fs
    /\ stdout = <<>>
    /\ exitKind = "running"
    /\ args = NoArgs
    /\ HEIGHT = DEFAULT_HEIGHT
    /\ FILENAME = DEFAULT_FILENAME
    /\ BOX = <<>>
    /\ EVALSCRIPT = DEFAULT_EVALSCRIPT
    /\ token = NoToken
    /\ width = 0
    /\ height = 0
    /\ request_params = NoRequest
    /\ response = NoResponse
    /\ http = <<>>
    /\ writes = 0

\* the run ends here: exit(), or an exception nobody catches
Terminate(kind) ==
    /\ pc' = "done"
    /\ exitKind' = kind

\* ------------------------------------------------------------ lines 10-16
CredentialsBlank_and(id, secret) == Len(id) = 0 /\ Len(secret) = 0

CredentialsBlank(id, secret) == Len(id) = 0 \/ Len(secret) = 0

GuidanceText ==
    <<[msg |-> "Fill in client_id and client_secret for OAuth authentication!"],
      [msg |-> "Create a free account at Copernicus and go here"]>>

CheckCredentials ==
    /\ pc = "check_credentials"
    /\ IF CredentialsBlank(client_id, client_secret)
         THEN /\ stdout' = stdout \o GuidanceText
              /\ Terminate("exit")
         ELSE /\ pc' = "parse_args"
              /\ UNCHANGED <<stdout, exitKind>>
    /\ UNCHANGED <<client_id, client_secret, argv, fs, fs0, args, HEIGHT,
                   FILENAME, BOX, EVALSCRIPT, token, width, height,
                   request_params, response, http, writes>>

\* ------------------------------------------------------------ lines 43-52
\* argparse applies type= to what was typed, never to a non-string default
IntArgOk(a) == ~a.given \/ a.kind = "num"

IntArg(a, default) == IF a.given THEN a.val ELSE default

\* --jas: default=2 stays the int 2, a typed literal goes through float()
JasArg(j) == IF j = "absent" THEN [isfloat |-> FALSE, val |-> 2]
                             ELSE [isfloat |-> TRUE, val |-> 3]

ParseArgs ==
    /\ pc = "parse_args"
    /\ IF IntArgOk(argv.vyska)
         THEN /\ args' = [soubor |-> argv.soubor,
                          vyska |-> IntArg(argv.vyska, DEFAULT_HEIGHT),
                          box |-> argv.box,
                          evalscript |-> argv.evalscript,
                          jas |-> JasArg(argv.jas),
                          ukaztoken |-> argv.ukaztoken]
              /\ pc' = "apply_args"
              /\ UNCHANGED exitKind
         ELSE /\ Terminate("SystemExit(2)")
              /\ UNCHANGED args
    /\ UNCHANGED <<client_id, client_secret, argv, fs, fs0, stdout, HEIGHT,
                   FILENAME, BOX, EVALSCRIPT, token, width, height,
                   request_params, response, http, writes>>

\* ------------------------------------------------------------ lines 55-60
\* float(coord): blanks around the literal are ignored, anything that is not
\* a decimal literal raises ValueError
FloatOk(c) == c.kind = "num"

float_(c) == c.val

\* [float(coord) for coord in args.box.split(",")]
ParseBoxOk(box) == \A i \in 1..Len(box) : FloatOk(box[i])

ParseBox(box) == [i \in 1..Len(box) |-> float_(box[i])]

\* f"{args.jas}": repr of an int has no point, repr of a float has one
FormatJas(j) == IF j.isfloat THEN ToString(j.val) \o ".0" ELSE ToString(j.val)

ExposureStmt(j) == "let exposure = " \o FormatJas(j) \o ";"

\* str.replace on the statements of a script
Replace(script, old, new) ==
    [i \in 1..Len(script) |-> IF script[i] = old THEN new ELSE script[i]]

ApplyArgs ==
    /\ pc = "apply_args"
    /\ HEIGHT' = args.vyska
    /\ FILENAME' = args.soubor
    /\ IF ParseBoxOk(args.box)
         THEN /\ BOX' = ParseBox(args.box)
              /\ EVALSCRIPT' = Replace(EVALSCRIPT, EXPOSURE_STMT, ExposureStmt(args.jas))
              /\ pc' = "load_evalscript"
              /\ UNCHANGED exitKind
         ELSE /\ Terminate("ValueError")
              /\ UNCHANGED <<BOX, EVALSCRIPT>>
    /\ UNCHANGED <<client_id, client_secret, argv, fs, fs0, stdout, args,
                   token, width, height, request_params, response, http, writes>>

\* ------------------------------------------------------------ lines 62-68
CustomEvalscriptGiven(path) == Len(path) > 1

\* open(path, "r") succeeds
CanRead(disk, path) == disk[path].exists /\ disk[path].readable

LoadEvalscript ==
    /\ pc = "load_evalscript"
    /\ IF CustomEvalscriptGiven(args.evalscript)
         THEN IF CanRead(fs, args.evalscript)
                THEN /\ EVALSCRIPT' = fs[args.evalscript].data
                     /\ UNCHANGED stdout
                ELSE /\ stdout' = Append(stdout, [msg |-> "Cannot read evalscript. Using default",
                                                  path |-> args.evalscript])
                     /\ UNCHANGED EVALSCRIPT
         ELSE UNCHANGED <<EVALSCRIPT, stdout>>
    /\ pc' = "fetch_token"
    /\ UNCHANGED <<client_id, client_secret, argv, fs, fs0, exitKind, args,
                   HEIGHT, FILENAME, BOX, token, width, height,
                   request_params, response, http, writes>>

\* ------------------------------------------------------------ lines 70-73
TokenCall == [call |-> "fetch_token", url |-> TOKEN_URL, bearer |-> "",
              json |-> NoRequest]

IssuedToken == [access_token |-> "eyJ", expires_in |-> "600", token_type |-> "Bearer"]

\* fetch_token raises and nothing catches it
TokenFailure_swallow ==
    /\ pc' = "show_token"
    /\ UNCHANGED <<exitKind, token>>

TokenFailure ==
    /\ Terminate("OAuth2Error")
    /\ UNCHANGED token

FetchToken ==
    /\ pc = "fetch_token"
    /\ http' = Append(http, TokenCall)
    /\ \/ /\ token' = IssuedToken
          /\ pc' = "show_token"
          /\ UNCHANGED exitKind
       \/ TokenFailure
    /\ UNCHANGED <<client_id, client_secret, argv, fs, fs0, stdout, args,
                   HEIGHT, FILENAME, BOX, EVALSCRIPT, width, height,
                   request_params, response, writes>>

\* ------------------------------------------------------------ lines 75-80
TokenKeys == <<"access_token", "expires_in", "token_type">>

TokenLines(t) ==
    [i \in 1..Len(TokenKeys) |-> [msg |-> "key: value", key |-> TokenKeys[i],
                                  value |-> t[TokenKeys[i]]]]

\* the exit() of line 80
ExitAfterToken_missing ==
    /\ pc' = "geometry"
    /\ UNCHANGED exitKind

ExitAfterToken == Terminate("exit")

ShowToken ==
    /\ pc = "show_token"
    /\ IF args.ukaztoken
         THEN /\ stdout' = stdout \o TokenLines(token)
              /\ ExitAfterToken
         ELSE /\ pc' = "geometry"
              /\ UNCHANGED <<stdout, exitKind>>
    /\ UNCHANGED <<client_id, client_secret, argv, fs, fs0, args, HEIGHT,
                   FILENAME, BOX, EVALSCRIPT, token, width, height,
                   request_params, response, http, writes>>

\* ------------------------------------------------------------ lines 82-100
\* math.cos(math.radians(avg_lat)) to four decimals, tabulated at the mean
\* latitudes of BoxArgs; the key is BOX[1] + BOX[3], twice the mean
Cos(latSum) ==
    CASE latSum = 1006234 -> 6386     \* 50.3117
      [] latSum = 1007347 -> 6379     \* 50.36735
      [] latSum = 1005764 -> 6389     \* 50.2882
      [] latSum = 1005712 -> 6390     \* 50.2856

\* quotient of two floats, rounded toward zero at the fixed-point resolution
TruncDiv(a, b) ==
    LET q == (IF a >= 0 THEN a ELSE -a) \div (IF b > 0 THEN b ELSE -b)
    IN IF (a >= 0) = (b > 0) THEN q ELSE -q

Abs(x) == IF x >= 0 THEN x ELSE -x

\* round(num / den): to the nearest integer
int_round(num, den) ==
    IF (num >= 0) = (den > 0) THEN (2 * Abs(num) + Abs(den)) \div (2 * Abs(den))
    ELSE -((2 * Abs(num) + Abs(den)) \div (2 * Abs(den)))

\* int(num / den): the fraction is dropped, toward zero
int_(num, den) == TruncDiv(num, den)

lat_diff(box) == box[4] - box[2]
lng_diff(box) == box[3] - box[1]
lat_distance(box) == lat_diff(box) * KM_PER_DEGREE
\* fixed-point
lng_distance(box) == lng_diff(box) * KM_PER_DEGREE * Cos(box[2] + box[4])
\* fixed-point
aspect_ratio(box) == TruncDiv(lng_distance(box), lat_distance(box))

\* width = int(HEIGHT * aspect_ratio), line 92
RawWidth(h, box) == int_(h * aspect_ratio(box), SCALE)

FinalWidth(h, box) == IF RawWidth(h, box) > MAX_WIDTH THEN MAX_WIDTH ELSE RawWidth(h, box)

\* height = int(width / aspect_ratio) when the width was clamped, line 99
FinalHeight(h, box) ==
    IF RawWidth(h, box) > MAX_WIDTH
      THEN int_(MAX_WIDTH * SCALE, aspect_ratio(box))
      ELSE h

Geometry ==
    /\ pc = "geometry"
    /\ IF Len(BOX) < 4
         THEN /\ Terminate("IndexError")
              /\ UNCHANGED <<width, height, stdout>>
         ELSE IF lat_distance(BOX) = 0
           THEN /\ Terminate("ZeroDivisionError")
                /\ UNCHANGED <<width, height, stdout>>
           ELSE /\ width' = FinalWidth(HEIGHT, BOX)
                /\ height' = FinalHeight(HEIGHT, BOX)
                /\ stdout' = Append(stdout, [msg |-> "Final image dimensions",
                                             w |-> width', h |-> height'])
                /\ pc' = "build_request"
                /\ UNCHANGED exitKind
    /\ UNCHANGED <<client_id, client_secret, argv, fs, fs0, args, HEIGHT,
                   FILENAME, BOX, EVALSCRIPT, token, request_params,
                   response, http, writes>>

\* ------------------------------------------------------------ lines 102-147
BuildRequest ==
    /\ pc = "build_request"
    /\ request_params' = [bbox |-> BOX, width |-> width, height |-> height,
                          format |-> DEFAULT_FORMAT, quality |-> DEFAULT_QUALITY,
                          evalscript |-> EVALSCRIPT]
    /\ pc' = "post"
    /\ UNCHANGED <<client_id, client_secret, argv, fs, fs0, stdout, exitKind,
                   args, HEIGHT, FILENAME, BOX, EVALSCRIPT, token, width,
                   height, response, http, writes>>

\* ------------------------------------------------------------ lines 152
PostCall == [call |-> "post", url |-> PROCESS_URL, bearer |-> token.access_token,
             json |-> request_params]

Post ==
    /\ pc = "post"
    /\ http' = Append(http, PostCall)
    /\ \/ \E code \in StatusCodes, body \in Bodies :
            /\ response' = [status_code |-> code, content |-> body]
            /\ pc' = "handle_response"
            /\ UNCHANGED exitKind
       \/ /\ Terminate("ConnectionError")
          /\ UNCHANGED response
    /\ UNCHANGED <<client_id, client_secret, argv, fs, fs0, stdout, args,
                   HEIGHT, FILENAME, BOX, EVALSCRIPT, token, width, height,
                   request_params, writes>>

\* ------------------------------------------------------------ lines 153-158
StatusIsOk_2xx(code) == code >= 200 /\ code < 300

StatusIsOk(code) == code = 200

\* open(path, "wb") then write(data): the file is truncated, then filled
WriteBinary_append(disk, path, data) ==
    [disk EXCEPT ![path] = File(disk[path].data \o data)]

WriteBinary(disk, path, data) == [disk EXCEPT ![path] = File(data)]

\* response.text: the body decoded, one character per byte
Text(content) == [i \in 1..Len(content) |-> "\\x" \o ToString(content[i])]

HandleResponse ==
    /\ pc = "handle_response"
    /\ IF StatusIsOk(response.status_code)
         THEN /\ stdout' = Append(stdout, [msg |-> "Saving image", file |-> FILENAME])
              /\ fs' = WriteBinary(fs, FILENAME, response.content)
              /\ writes' = writes + 1
         ELSE /\ stdout' = Append(stdout, [msg |-> "An error occurred!",
                                           code |-> response.status_code,
                                           text |-> Text(response.content)])
              /\ UNCHANGED <<fs, writes>>
    /\ Terminate("end")
    /\ UNCHANGED <<client_id, client_secret, argv, fs0, args, HEIGHT, FILENAME,
                   BOX, EVALSCRIPT, token, width, height, request_params,
                   response, http>>

Next ==
    \/ CheckCredentials
    \/ ParseArgs
    \/ ApplyArgs
    \/ LoadEvalscript
    \/ FetchToken
    \/ ShowToken
    \/ Geometry
    \/ BuildRequest
    \/ Post
    \/ HandleResponse

Spec == Init /\ [][Next]_vars

\* ------------------------------------------------------------ properties
Posted == \E i \in 1..Len(http) : http[i].call = "post"

Calls(c) == Cardinality({i \in 1..Len(http) : http[i].call = c})

Printed(m) == \E i \in 1..Len(stdout) : stdout[i].msg = m

\* lines 62-68 have run
ScriptResolved == pc = "fetch_token" \/ Len(http) > 0

\* lines 84-100 have run to the end
GeometryDone ==
    \/ pc \in {"build_request", "post", "handle_response"}
    \/ pc = "done" /\ exitKind \in {"end", "ConnectionError"}

RequestBuilt == request_params # NoRequest

\* the built-in script with the brightness put in, written out
BuiltInScript(jas) ==
    <<"//VERSION=3", "function setup()", "function evaluatePixel(sample)",
      IF jas = "3" THEN "let exposure = 3.0;" ELSE "let exposure = 2;",
      "return [B04, B03, B02] * exposure">>

\* n is num/den with the fraction dropped
IsTrunc(n, num, den) ==
    /\ Abs(n) * Abs(den) <= Abs(num)
    /\ Abs(num) < (Abs(n) + 1) * Abs(den)
    /\ n # 0 => ((n > 0) = ((num > 0) = (den > 0)))

\* n is num/den rounded to the nearest integer
IsRound(n, num, den) == Abs(2 * num - 2 * n * den) <= Abs(den)

\* C1: with a blank client ID or client secret, whatever the command line,
\* the run makes no network call and touches no file, and it ends after
\* printing the guidance text and nothing else.
C1_BlankCredentialsRefuse ==
    (Len(client_id) = 0 \/ Len(client_secret) = 0) =>
        /\ http = <<>>
        /\ fs = fs0
        /\ writes = 0
        /\ pc \in {"check_credentials", "done"}
        /\ pc = "done" => stdout = GuidanceText /\ exitKind = "exit"

C1_Witness ==
    /\ pc = "done"
    /\ Len(client_id) > 0
    /\ Len(client_secret) = 0
    /\ argv.ukaztoken
    /\ \E i \in 1..Len(argv.box) : argv.box[i].kind # "num"
    /\ stdout = GuidanceText

\* C2: once the POST has answered with a status other than 200 the disk is as
\* it was before the run, no further request is made, and the run ends having
\* printed the status code and the body text.
C2_Non200LeavesFile ==
    (response # NoResponse /\ response.status_code # 200) =>
        /\ fs = fs0
        /\ writes = 0
        /\ Len(http) = 2
        /\ Calls("post") = 1
        /\ pc \in {"handle_response", "done"}
        /\ pc = "done" =>
            /\ exitKind = "end"
            /\ stdout[Len(stdout)].msg = "An error occurred!"
            /\ stdout[Len(stdout)].code = response.status_code
            /\ stdout[Len(stdout)].text = Text(response.content)

C2_Witness ==
    /\ pc = "done"
    /\ response.status_code = 204
    /\ Len(response.content) > 0
    /\ fs0[argv.soubor].exists
    /\ fs[argv.soubor].data = OldImage
    /\ Printed("An error occurred!")

\* C3: when the POST answered 200 and the run is over, the file at the path
\* given on the command line holds exactly the response body, whatever it
\* held before, it was written once, and no other file changed.
C3_OkWritesBody ==
    (pc = "done" /\ response.status_code = 200) =>
        /\ fs[argv.soubor].exists
        /\ fs[argv.soubor].data = response.content
        /\ writes = 1
        /\ \A p \in Paths \ {argv.soubor} : fs[p] = fs0[p]

C3_Witness ==
    /\ pc = "done"
    /\ response.status_code = 200
    /\ argv.soubor = OutB
    /\ fs0[OutB].exists
    /\ fs0[OutB].data # response.content
    /\ fs[OutB].data = response.content
    /\ Len(response.content) > 0

\* C4: with the token-only flag set and a token obtained, the run goes no
\* further than printing the token: no POST, no file written, and it ends
\* with every key of the token printed with its value.
C4_TokenOnlyStops ==
    (argv.ukaztoken /\ token # NoToken) =>
        /\ ~Posted
        /\ writes = 0
        /\ fs = fs0
        /\ pc \in {"show_token", "done"}
        /\ pc = "done" =>
            /\ exitKind = "exit"
            /\ \A k \in {"access_token", "expires_in", "token_type"} :
                 \E i \in 1..Len(stdout) :
                    /\ stdout[i].msg = "key: value"
                    /\ stdout[i].key = k
                    /\ stdout[i].value = token[k]

C4_Witness ==
    /\ pc = "done"
    /\ argv.ukaztoken
    /\ token = IssuedToken
    /\ Printed("key: value")
    /\ Len(http) = 1

\* C5: for a box with lat1 > lat0 and lng1 > lng0 and a height above zero,
\* the width and height in the request are at least 1 and the width is at
\* most 2500.
C5_PositiveDimensions ==
    (RequestBuilt /\ BOX[4] > BOX[2] /\ BOX[3] > BOX[1] /\ HEIGHT > 0) =>
        /\ request_params.width >= 1
        /\ request_params.height >= 1
        /\ request_params.width <= MAX_WIDTH

\* C6 as stated: the width is round(height x aspect ratio); above 2500 it
\* becomes 2500 and the height round(2500 / aspect ratio), otherwise the
\* height is the requested one and the width is round(height x aspect ratio).
C6_Rounded ==
    GeometryDone =>
        IF 2 * HEIGHT * aspect_ratio(BOX) > (2 * MAX_WIDTH + 1) * SCALE
          THEN /\ width = MAX_WIDTH
               /\ IsRound(height, MAX_WIDTH * SCALE, aspect_ratio(BOX))
          ELSE /\ height = HEIGHT
               /\ IsRound(width, HEIGHT * aspect_ratio(BOX), SCALE)

\* C6 amended: the width is height x aspect ratio with the fraction dropped
\* (toward zero); above 2500 it becomes 2500 and the height is 2500 / aspect
\* ratio with the fraction dropped, otherwise the height is the requested
\* one and the width is height x aspect ratio with the fraction dropped.
C6_Truncated ==
    GeometryDone =>
        IF HEIGHT * aspect_ratio(BOX) >= (MAX_WIDTH + 1) * SCALE
          THEN /\ width = MAX_WIDTH
               /\ IsTrunc(height, MAX_WIDTH * SCALE, aspect_ratio(BOX))
          ELSE /\ height = HEIGHT
               /\ IsTrunc(width, HEIGHT * aspect_ratio(BOX), SCALE)

C6_Witness ==
    /\ GeometryDone
    /\ HEIGHT = 3000
    /\ width = MAX_WIDTH
    /\ height = 1249
    /\ ~IsRound(height, MAX_WIDTH * SCALE, aspect_ratio(BOX))

\* C7: when a script path is given and the file cannot be read, a warning is
\* printed, the run goes on, and the script kept and sent is the built-in
\* one with the brightness put in.
C7_UnreadableFallsBack ==
    (Len(argv.evalscript) > 0 /\ ~CanRead(fs0, argv.evalscript) /\ ScriptResolved) =>
        /\ Printed("Cannot read evalscript. Using default")
        /\ EVALSCRIPT = BuiltInScript(argv.jas)
        /\ RequestBuilt => request_params.evalscript = BuiltInScript(argv.jas)

\* C8: a run whose --box is not exactly four numbers never issues the POST
\* and never writes the output file.
C8_MalformedBoxFatal ==
    (Len(argv.box) # 4 \/ \E i \in 1..Len(argv.box) : argv.box[i].kind # "num") =>
        /\ ~Posted
        /\ writes = 0

\* C9: at most one token exchange and one POST, the POST second and only
\* with a token in hand; a failed exchange ends the run with nothing posted
\* and nothing written; any failure is the end of the run.
C9_OneCallEachInOrder ==
    /\ Calls("fetch_token") <= 1
    /\ Calls("post") <= 1
    /\ \A i \in 1..Len(http) :
          http[i].call = "post" =>
             /\ i = 2
             /\ http[1].call = "fetch_token"
             /\ token # NoToken
             /\ http[i].bearer = token.access_token
    /\ (Len(http) = 1 /\ token = NoToken) =>
          /\ pc = "done"
          /\ exitKind = "OAuth2Error"
          /\ writes = 0
          /\ fs = fs0
    /\ exitKind # "running" => pc = "done"

C9_Witness ==
    /\ pc = "done"
    /\ exitKind = "OAuth2Error"
    /\ ~argv.ukaztoken
    /\ Len(argv.box) = 4
    /\ http = <<TokenCall>>

\* C10: when a script path of any length above zero is given and the file
\* can be read, the script in the request is the file's text as it is, an
\* empty file giving an empty script.
C10_ReadableVerbatim ==
    (Len(argv.evalscript) > 0 /\ CanRead(fs0, argv.evalscript) /\ RequestBuilt) =>
        request_params.evalscript = fs0[argv.evalscript].data

====
